---- MODULE Spec2Model ----
(***************************************************************************)
(* Context features of contextAverage.hxx: means (and variances) of a      *)
(* multi-channel field over nested squares / cubes, read off integral      *)
(* images.  The element type T is modelled by exact rationals <<n, d>>     *)
(* (d > 0, lowest terms); <<0, 0>> stands for every non-finite T (the      *)
(* result of a division by zero and whatever is computed from it).         *)
(* Indices are 0-based as in the code: a vector of length n is a function  *)
(* on 0..n-1, a 2D array a function on triples <<x, y, c>>, a 3D array a   *)
(* function on <<x, y, z, c>>.                                            *)
(***************************************************************************)
EXTENDS Integers, Sequences, FiniteSets, TLC

\* ------------------------------------------------------------ bounds
\* Largest extent of a 2D array along x and y.
MaxDim2 == 5
\* Largest extent of a 3D array along x, y and z.
MaxDim3 == 4
\* Largest number of channels (nclasses).
MaxClasses == 2
\* Largest value of a field element.
MaxVal == 2
\* Largest number of array elements (extents times channels).
MaxCells == 64
\* Largest number of (channel, location) pairs of a driver whose loop
\* iterations are taken in any order.
MaxPairs == 6
\* Largest radius in a radius list: the largest one whose box fits a 2D array.
MaxRadius == (MaxDim2 - 1) \div 2
\* Longest radius list: the longest strictly increasing one.
MaxNR == MaxRadius + 1

\* ------------------------------------------------------------ T
RECURSIVE GCD(_, _)
GCD(a, b) == IF b = 0 THEN a ELSE GCD(b, a % b)

Abs(a) == IF a < 0 THEN -a ELSE a

NonFinite == <<0, 0>>

IsFinite(p) == p[2] # 0

\* n/d in lowest terms; a zero divisor gives a non-finite value.
Rat(n, d) ==
    IF d = 0 THEN NonFinite
    ELSE LET g == GCD(Abs(n), Abs(d))
             s == IF d < 0 THEN -1 ELSE 1
         IN  <<(s * n) \div g, (s * d) \div g>>

RInt(k) == <<k, 1>>

RSub(p, q) ==
    IF ~IsFinite(p) \/ ~IsFinite(q) THEN NonFinite
    ELSE LET g == GCD(p[2], q[2])
         IN  Rat(p[1] * (q[2] \div g) - q[1] * (p[2] \div g), (p[2] \div g) * q[2])

RMul(p, q) ==
    IF ~IsFinite(p) \/ ~IsFinite(q) THEN NonFinite
    ELSE LET g1 == GCD(Abs(p[1]), q[2])
             g2 == GCD(Abs(q[1]), p[2])
         IN  Rat((p[1] \div g1) * (q[1] \div g2), (p[2] \div g2) * (q[2] \div g1))

RMulInt(p, k) == RMul(p, RInt(k))

RDivInt(p, k) ==
    IF ~IsFinite(p) \/ k = 0 THEN NonFinite
    ELSE LET g == GCD(Abs(p[1]), Abs(k))
         IN  Rat(p[1] \div g, p[2] * (k \div g))

RGeqZero(p) == IsFinite(p) /\ p[1] >= 0

\* ------------------------------------------------------------ arrays
Idx2(shp) == (0 .. shp[1] - 1) \X (0 .. shp[2] - 1) \X (0 .. shp[3] - 1)

Idx3(shp) ==
    (0 .. shp[1] - 1) \X (0 .. shp[2] - 1) \X (0 .. shp[3] - 1) \X (0 .. shp[4] - 1)

\* The summand of an integral image: the element, or its square.
El(P, p, squared) == IF squared THEN P[p] * P[p] ELSE P[p]

RECURSIVE RowCum(_, _, _, _, _)
\* Running sum of channel c along y, up to y, in row x.
RowCum(P, squared, x, y, c) ==
    IF y < 0 THEN 0 ELSE El(P, <<x, y, c>>, squared) + RowCum(P, squared, x, y - 1, c)

RECURSIVE Cum2(_, _, _, _, _)
\* Running sum along x, up to x, of the running sums along y.
Cum2(P, squared, x, y, c) ==
    IF x < 0 THEN 0 ELSE RowCum(P, squared, x, y, c) + Cum2(P, squared, x - 1, y, c)

\* integralImage: element (x, y, c) is the sum of the field over all (i, j)
\* with i <= x and j <= y, channel by channel.
integralImage(P) == [p \in DOMAIN P |-> Cum2(P, FALSE, p[1], p[2], p[3])]

\* integralImage2: the same over the squared field.
integralImage2(P) == [p \in DOMAIN P |-> Cum2(P, TRUE, p[1], p[2], p[3])]

RECURSIVE LineCum(_, _, _, _, _, _)
\* Running sum of channel c along z, up to z, in line (x, y).
LineCum(P, squared, x, y, z, c) ==
    IF z < 0 THEN 0
    ELSE El(P, <<x, y, z, c>>, squared) + LineCum(P, squared, x, y, z - 1, c)

RECURSIVE PlaneCum(_, _, _, _, _, _)
\* Running sum along y of the running sums along z.
PlaneCum(P, squared, x, y, z, c) ==
    IF y < 0 THEN 0
    ELSE LineCum(P, squared, x, y, z, c) + PlaneCum(P, squared, x, y - 1, z, c)

RECURSIVE Cum3(_, _, _, _, _, _)
\* Running sum along x of the running sums along y and z.
Cum3(P, squared, x, y, z, c) ==
    IF x < 0 THEN 0
    ELSE PlaneCum(P, squared, x, y, z, c) + Cum3(P, squared, x - 1, y, z, c)

\* integralVolume: element (x, y, z, c) is the sum of the field over all
\* (i, j, k) with i <= x, j <= y and k <= z, channel by channel.
integralVolume(P) == [p \in DOMAIN P |-> Cum3(P, FALSE, p[1], p[2], p[3], p[4])]

\* integralVolume2: the same over the squared field.
integralVolume2(P) == [p \in DOMAIN P |-> Cum3(P, TRUE, p[1], p[2], p[3], p[4])]

\* A read of element idx of array A.  A read outside the array has no
\* defined value; the read log (below) records every index, and no reachable
\* state holds one outside the array, so the value given here is never used.
Rd(A, idx) == IF idx \in DOMAIN A THEN RInt(A[idx]) ELSE RInt(0)

\* ------------------------------------------------------------ average_features
\* Placeholder with 1/nclasses taken as an integer division.
Placeholder_IntDiv(nclasses) == RInt(1 \div nclasses)

\* Lines 33, 81: the value stored for a radius whose box leaves the array.
Placeholder(nclasses) == Rat(1, nclasses)

\* The value of one corner term: 0 when the term is replaced by 0, the
\* element of integral otherwise.
Corner(t, integral) == IF t.zero THEN RInt(0) ELSE Rd(integral, t.idx)

\* The indices of integral the corner terms ts read.
CornerReads(ts) == {ts[n].idx : n \in {m \in DOMAIN ts : ~ts[m].zero}}

\* OutOfBorder2D with the comparison against the upper x border turned round.
OutOfBorder2D_Flipped(x, y, r, shp) ==
    x < r \/ y < r \/ x + r < shp[1] - 1 \/ y + r > shp[2] - 1

\* Line 32: the box of radius r around (x, y) leaves the array.
OutOfBorder2D(x, y, r, shp) ==
    x < r \/ y < r \/ x + r > shp[1] - 1 \/ y + r > shp[2] - 1

\* Terms2D with ur guarded by the condition of ll.
Terms2D_UrGuard(x, y, c, r) ==
    [ul |-> [zero |-> x = r \/ y = r, idx |-> <<x - r - 1, y - r - 1, c>>],
     ll |-> [zero |-> y = r,          idx |-> <<x + r, y - r - 1, c>>],
     ur |-> [zero |-> y = r,          idx |-> <<x - r - 1, y + r, c>>],
     lr |-> [zero |-> FALSE,          idx |-> <<x + r, y + r, c>>]]

\* Lines 39-42: the four corner terms for radius r, each with the condition
\* under which it is 0 and the element of integral it is otherwise.
Terms2D(x, y, c, r) ==
    [ul |-> [zero |-> x = r \/ y = r, idx |-> <<x - r - 1, y - r - 1, c>>],
     ll |-> [zero |-> y = r,          idx |-> <<x + r, y - r - 1, c>>],
     ur |-> [zero |-> x = r,          idx |-> <<x - r - 1, y + r, c>>],
     lr |-> [zero |-> FALSE,          idx |-> <<x + r, y + r, c>>]]

\* FourCorner with ul subtracted: sum = lr - ll - ur - ul.
FourCorner_SignSlip(x, y, c, r, integral) ==
    LET t == Terms2D(x, y, c, r)
        ul == Corner(t.ul, integral)
        ll == Corner(t.ll, integral)
        ur == Corner(t.ur, integral)
        lr == Corner(t.lr, integral)
    IN  RSub(RSub(RSub(lr, ll), ur), ul)

\* Line 44: sum = lr - ll - ur + ul.
FourCorner(x, y, c, r, integral) ==
    LET t == Terms2D(x, y, c, r)
        ul == Corner(t.ul, integral)
        ll == Corner(t.ll, integral)
        ur == Corner(t.ur, integral)
        lr == Corner(t.lr, integral)
    IN  RSub(RSub(lr, ll), RSub(ur, ul))

\* Lines 45, 49: the number of elements of the square of radius r.
N2D(r) == (2 * r + 1) * (2 * r + 1)

\* SumPrev2D with one factor 2*radii[ir-1]+1 only.
SumPrev2D_OneFactor(averages, radii, ir) ==
    RMulInt(averages[ir - 1], 2 * radii[ir - 1] + 1)

\* Lines 47-48: the amount subtracted for the previous radius.
SumPrev2D(averages, radii, ir) ==
    RMulInt(RMulInt(averages[ir - 1], 2 * radii[ir - 1] + 1), 2 * radii[ir - 1] + 1)

\* The record a call of the averaging routine leaves behind: the averages
\* vector and, per radius index, whether the border branch was taken, the
\* indices of integral that were read, the indices of averages that were
\* read and the corner sum before the subtraction.
EmptyRun(nr) ==
    [averages |-> [i \in 0 .. nr - 1 |-> RInt(0)],
     border   |-> [i \in 0 .. nr - 1 |-> FALSE],
     reads    |-> [i \in 0 .. nr - 1 |-> {}],
     avReads  |-> [i \in 0 .. nr - 1 |-> {}],
     box      |-> [i \in 0 .. nr - 1 |-> RInt(0)]]

RECURSIVE AvLoop2D(_, _, _, _, _, _, _, _)
\* Lines 28-53: the iterations ir, ir+1, ..., nr-1 of the loop.
AvLoop2D(radii, x, y, c, integral, shp, ir, st) ==
    LET nr == Cardinality(DOMAIN radii)
        nclasses == shp[3]
    IN  IF ir >= nr THEN st
        ELSE IF OutOfBorder2D(x, y, radii[ir], shp)
        THEN AvLoop2D(radii, x, y, c, integral, shp, ir + 1,
                [st EXCEPT !.averages[ir] = Placeholder(nclasses),
                           !.border[ir] = TRUE])
        ELSE LET sum0 == FourCorner(x, y, c, radii[ir], integral)
                 sum == IF ir > 0 THEN RSub(sum0, SumPrev2D(st.averages, radii, ir))
                        ELSE sum0
                 n == IF ir > 0 THEN N2D(radii[ir]) - N2D(radii[ir - 1])
                      ELSE N2D(radii[ir])
             IN  AvLoop2D(radii, x, y, c, integral, shp, ir + 1,
                    [st EXCEPT !.averages[ir] = RDivInt(sum, n),
                               !.reads[ir] = CornerReads(Terms2D(x, y, c, radii[ir])),
                               !.avReads[ir] = IF ir > 0 THEN {ir - 1} ELSE {},
                               !.box[ir] = sum0])

average_features(radii, x, y, c, integral, shp) ==
    AvLoop2D(radii, x, y, c, integral, shp, 0, EmptyRun(Cardinality(DOMAIN radii)))

\* ------------------------------------------------------------ average_features_3d_is
\* Line 80: the cube of radius r around (x, y, z) leaves the volume.
OutOfBorder3D(x, y, z, r, shp) ==
    \/ x < r \/ y < r \/ z < r
    \/ x + r > shp[1] - 1 \/ y + r > shp[2] - 1 \/ z + r > shp[3] - 1

\* Lines 88-96: the eight corner terms for radius r.
Terms3D(x, y, z, c, r) ==
    [uul |-> [zero |-> x = r \/ y = r \/ z = r,
              idx |-> <<x - r - 1, y - r - 1, z - r - 1, c>>],
     ull |-> [zero |-> y = r \/ z = r, idx |-> <<x + r, y - r - 1, z - r - 1, c>>],
     uur |-> [zero |-> x = r \/ z = r, idx |-> <<x - r - 1, y + r, z - r - 1, c>>],
     ulr |-> [zero |-> z = r,          idx |-> <<x + r, y + r, z - r - 1, c>>],
     lul |-> [zero |-> x = r \/ y = r, idx |-> <<x - r - 1, y - r - 1, z + r, c>>],
     lll |-> [zero |-> y = r,          idx |-> <<x + r, y - r - 1, z + r, c>>],
     lur |-> [zero |-> x = r,          idx |-> <<x - r - 1, y + r, z + r, c>>],
     llr |-> [zero |-> FALSE,          idx |-> <<x + r, y + r, z + r, c>>]]

RAdd(p, q) == RSub(p, RSub(RInt(0), q))

\* EightCorner with the expression line 99 keeps in a comment:
\* sum = ulr - uur - ull - llr + uul + lur + lll - lul.
EightCorner_Line99(x, y, z, c, r, integral) ==
    LET t == Terms3D(x, y, z, c, r)
        uul == Corner(t.uul, integral)
        ull == Corner(t.ull, integral)
        uur == Corner(t.uur, integral)
        ulr == Corner(t.ulr, integral)
        lul == Corner(t.lul, integral)
        lll == Corner(t.lll, integral)
        lur == Corner(t.lur, integral)
        llr == Corner(t.llr, integral)
    IN  RSub(RAdd(RAdd(RAdd(RSub(RSub(RSub(ulr, uur), ull), llr), uul), lur), lll), lul)

\* Line 100: sum = uur + ull + llr + lul - ulr - uul - lur - lll.
EightCorner(x, y, z, c, r, integral) ==
    LET t == Terms3D(x, y, z, c, r)
        uul == Corner(t.uul, integral)
        ull == Corner(t.ull, integral)
        uur == Corner(t.uur, integral)
        ulr == Corner(t.ulr, integral)
        lul == Corner(t.lul, integral)
        lll == Corner(t.lll, integral)
        lur == Corner(t.lur, integral)
        llr == Corner(t.llr, integral)
    IN  RSub(RSub(RSub(RSub(RAdd(RAdd(RAdd(uur, ull), llr), lul), ulr), uul), lur), lll)

\* Lines 102, 108: the number of elements of the cube of radius r.
N3D(r) == (2 * r + 1) * (2 * r + 1) * (2 * r + 1)

\* Lines 108-109: the amount subtracted for the previous radius.
SumPrev3D(averages, radii, ir) == RMulInt(averages[ir - 1], N3D(radii[ir - 1]))

RECURSIVE AvLoop3D(_, _, _, _, _, _, _, _, _)
\* Lines 78-118: the iterations ir, ir+1, ..., nr-1 of the loop.
AvLoop3D(radii, x, y, z, c, integral, shp, ir, st) ==
    LET nr == Cardinality(DOMAIN radii)
        nclasses == shp[4]
    IN  IF ir >= nr THEN st
        ELSE IF OutOfBorder3D(x, y, z, radii[ir], shp)
        THEN AvLoop3D(radii, x, y, z, c, integral, shp, ir + 1,
                [st EXCEPT !.averages[ir] = Placeholder(nclasses),
                           !.border[ir] = TRUE])
        ELSE LET sum0 == EightCorner(x, y, z, c, radii[ir], integral)
                 sum == IF ir > 0 THEN RSub(sum0, SumPrev3D(st.averages, radii, ir))
                        ELSE sum0
                 n == IF ir > 0 THEN N3D(radii[ir]) - N3D(radii[ir - 1])
                      ELSE N3D(radii[ir])
             IN  AvLoop3D(radii, x, y, z, c, integral, shp, ir + 1,
                    [st EXCEPT !.averages[ir] = RDivInt(sum, n),
                               !.reads[ir] = CornerReads(Terms3D(x, y, z, c, radii[ir])),
                               !.avReads[ir] = IF ir > 0 THEN {ir - 1} ELSE {},
                               !.box[ir] = sum0])

average_features_3d_is(radii, x, y, z, c, integral, shp) ==
    AvLoop3D(radii, x, y, z, c, integral, shp, 0, EmptyRun(Cardinality(DOMAIN radii)))

\* ------------------------------------------------------------ state
VARIABLES
    mode,         \* which driver runs: "av2D", "var2D" or "var3D"
    shape,        \* predictions.shape(): <<nx, ny, nclasses>> or <<nx, ny, nz, nclasses>>
    sizes,        \* the radius list
    predictions,  \* the input field
    integral,     \* integral image of predictions (empty before it is built)
    integral2,    \* integral image of the squared predictions
    res,          \* the output array: the elements written so far
    pc,           \* "build", "loop" or "done"
    pos,          \* the loop variables: <<c, x, y>> or <<c, x, y, z>>
    todo,         \* the (channel, location) pairs an unordered driver has left
    at,           \* the loop variables of the last iteration executed
    newf,         \* record of the last call of the averaging routine on integral
    newf2         \* record of the last call of the averaging routine on integral2

vars ==
    <<mode, shape, sizes, predictions, integral, integral2, res, pc, pos, todo, at,
      newf, newf2>>

\* ------------------------------------------------------------ inputs
\* Vectors over S of length 1..n, as functions on 0..len-1.
VecsUpTo(S, n) == UNION {[0 .. k - 1 -> S] : k \in 1 .. n}

StrictlyIncreasing(radii) ==
    \A i \in DOMAIN radii : i > 0 => radii[i - 1] < radii[i]

AllRadiusLists == VecsUpTo(0 .. MaxRadius, MaxNR)

RadiusLists == {r \in AllRadiusLists : StrictlyIncreasing(r)}

Is3D(m) == m = "var3D"

nclassesOf(shp) == shp[Len(shp)]

Cells(shp) == IF Len(shp) = 3 THEN shp[1] * shp[2] * shp[3]
              ELSE shp[1] * shp[2] * shp[3] * shp[4]

\* Shapes with every spatial extent in lo..hi.
ShapesBetween(m, lo, hi) ==
    {s \in IF Is3D(m)
           THEN (lo .. hi) \X (lo .. hi) \X (lo .. hi) \X (1 .. MaxClasses)
           ELSE (lo .. hi) \X (lo .. hi) \X (1 .. MaxClasses) :
        Cells(s) <= MaxCells}

MaxDimOf(m) == IF Is3D(m) THEN MaxDim3 ELSE MaxDim2

IdxOf(shp) == IF Len(shp) = 3 THEN Idx2(shp) ELSE Idx3(shp)

\* A field: bg everywhere except hi at one element.
Field(idx, bg, hi, spike) == [p \in idx |-> IF p = spike THEN hi ELSE bg]

ConstantFields(idx) == {[p \in idx |-> k] : k \in 0 .. MaxVal}

SpikeFields(idx) == {Field(idx, 0, MaxVal, p) : p \in idx}

Modes == {"av2D", "var2D", "var3D"}

\* The (channel, location) pairs of a driver's loops, as loop variables.
AllPos(shp) ==
    IF Len(shp) = 3
    THEN (0 .. shp[3] - 1) \X (0 .. shp[1] - 1) \X (0 .. shp[2] - 1)
    ELSE (0 .. shp[4] - 1) \X (0 .. shp[1] - 1) \X (0 .. shp[2] - 1) \X (0 .. shp[3] - 1)

\* A field that differs from element to element and from channel to channel.
Ramp(idx) ==
    [p \in idx |->
        (p[1] + 2 * p[2] + 3 * p[3] + (IF Len(p) = 4 THEN 5 * p[4] ELSE 0)) % (MaxVal + 1)]

Start(td) ==
    /\ integral = <<>>
    /\ integral2 = <<>>
    /\ res = <<>>
    /\ pc = "build"
    /\ pos = IF Is3D(mode) THEN <<0, 0, 0, 0>> ELSE <<0, 0, 0>>
    /\ todo = td
    /\ at = <<>>
    /\ newf = EmptyRun(0)
    /\ newf2 = EmptyRun(0)

\* Entry of a driver: the two largest extents per axis, strictly increasing
\* radius lists, constant fields and fields with one raised element.
Init ==
    /\ mode \in Modes
    /\ shape \in ShapesBetween(mode, MaxDimOf(mode) - 1, MaxDimOf(mode))
    /\ sizes \in RadiusLists
    /\ predictions \in ConstantFields(IdxOf(shape)) \cup SpikeFields(IdxOf(shape))
    /\ Start({})

\* Entry of a driver: in 2D every extent from 1 up, every radius list (ordered
\* or not), the field that is MaxVal everywhere.
InitAny ==
    /\ mode \in Modes
    /\ shape \in ShapesBetween(mode, IF Is3D(mode) THEN MaxDim3 - 1 ELSE 1, MaxDimOf(mode))
    /\ sizes \in AllRadiusLists
    /\ predictions = [p \in IdxOf(shape) |-> MaxVal]
    /\ Start({})

\* Entry of a driver whose loop iterations are taken in any order: arrays of
\* at most MaxPairs elements, every (channel, location) pair still to do.
InitPar ==
    /\ mode \in Modes
    /\ shape \in {sh \in ShapesBetween(mode, 1, MaxDimOf(mode)) : Cells(sh) <= MaxPairs}
    /\ sizes \in RadiusLists
    /\ predictions = Ramp(IdxOf(shape))
    /\ Start(AllPos(shape))

\* ------------------------------------------------------------ drivers
nnewfeatures == Cardinality(DOMAIN sizes)

Max(S) == CHOOSE m \in S : \A k \in S : k <= m

\* Lines 142-145, 178-181: the loop variables <<c, x, y>> after one more
\* iteration of the innermost loop, or <<>> when the outermost loop has ended.
NextPos2D(p, shp) ==
    IF p[3] + 1 < shp[2] THEN <<p[1], p[2], p[3] + 1>>
    ELSE IF p[2] + 1 < shp[1] THEN <<p[1], p[2] + 1, 0>>
    ELSE IF p[1] + 1 < shp[3] THEN <<p[1] + 1, 0, 0>>
    ELSE <<>>

\* Lines 218-221: the same for <<c, x, y, z>>.
NextPos3D(p, shp) ==
    IF p[4] + 1 < shp[3] THEN <<p[1], p[2], p[3], p[4] + 1>>
    ELSE IF p[3] + 1 < shp[2] THEN <<p[1], p[2], p[3] + 1, 0>>
    ELSE IF p[2] + 1 < shp[1] THEN <<p[1], p[2] + 1, 0, 0>>
    ELSE IF p[1] + 1 < shp[4] THEN <<p[1] + 1, 0, 0, 0>>
    ELSE <<>>

\* AvIndex without the stride of a channel.
AvIndex_NoStride(c, ii, nf) == c + ii

\* Line 150: the feature index of radius ii of channel c.
AvIndex(c, ii, nf) == c * nf + ii

\* MeanIndex with the channel stride of the mean-only driver.
MeanIndex_AvStride(c, ii, nf) == c * nf + ii

\* Lines 189, 231: the feature index of the mean of radius ii of channel c.
MeanIndex(c, ii, nf) == c * 2 * nf + ii

\* Lines 193, 235: the feature index of the variance of radius ii of channel c.
VarIndex(c, ii, nf) == c * 2 * nf + nf + ii

\* Lines 193, 235: newf2[ii] - newf[ii]*newf[ii].
Variance(f, f2, ii) == RSub(f2.averages[ii], RMul(f.averages[ii], f.averages[ii]))

\* The elements one loop "for ii" writes at location loc: index[ii] is the
\* feature index and value[ii] the value of iteration ii; of two iterations
\* writing one element the later one stays.
WriteLoop(loc, index, value) ==
    [k \in {Append(loc, index[ii]) : ii \in DOMAIN index} |->
        value[Max({ii \in DOMAIN index : Append(loc, index[ii]) = k})]]

\* Lines 149-151: what one iteration of avContext2Dmulti writes to res.
WriteAv(loc, c, nf, f) ==
    WriteLoop(loc, [ii \in 0 .. nf - 1 |-> AvIndex(c, ii, nf)], f.averages)

\* Lines 187-194, 227-236: what one iteration of varContext2Dmulti or
\* varContext3Dmulti writes to res, the variances after the means.
WriteVar(loc, c, nf, f, f2) ==
    WriteLoop(loc, [ii \in 0 .. nf - 1 |-> VarIndex(c, ii, nf)],
              [ii \in 0 .. nf - 1 |-> Variance(f, f2, ii)])
    @@ WriteLoop(loc, [ii \in 0 .. nf - 1 |-> MeanIndex(c, ii, nf)], f.averages)

\* Lines 138-140: avContext2Dmulti builds the integral image.
BuildAv2D ==
    /\ pc = "build" /\ mode = "av2D"
    /\ integral' = integralImage(predictions)
    /\ pc' = "loop"
    /\ UNCHANGED <<mode, shape, sizes, predictions, integral2, res, pos, todo, at,
                   newf, newf2>>

\* Lines 172-176: varContext2Dmulti builds both integral images.
BuildVar2D ==
    /\ pc = "build" /\ mode = "var2D"
    /\ integral' = integralImage(predictions)
    /\ integral2' = integralImage2(predictions)
    /\ pc' = "loop"
    /\ UNCHANGED <<mode, shape, sizes, predictions, res, pos, todo, at, newf, newf2>>

\* Lines 212-216: varContext3Dmulti builds both integral volumes.
BuildVar3D ==
    /\ pc = "build" /\ mode = "var3D"
    /\ integral' = integralVolume(predictions)
    /\ integral2' = integralVolume2(predictions)
    /\ pc' = "loop"
    /\ UNCHANGED <<mode, shape, sizes, predictions, res, pos, todo, at, newf, newf2>>

\* Lines 146-151: the body of the loops of avContext2Dmulti at p = <<c, x, y>>.
BodyAv2D(p) ==
    /\ newf' = average_features(sizes, p[2], p[3], p[1], integral, shape)
    /\ newf2' = newf2
    /\ res' = WriteAv(<<p[2], p[3]>>, p[1], nnewfeatures, newf') @@ res
    /\ at' = p

\* Lines 182-194: the body of the loops of varContext2Dmulti at p = <<c, x, y>>.
BodyVar2D(p) ==
    /\ newf' = average_features(sizes, p[2], p[3], p[1], integral, shape)
    /\ newf2' = average_features(sizes, p[2], p[3], p[1], integral2, shape)
    /\ res' = WriteVar(<<p[2], p[3]>>, p[1], nnewfeatures, newf', newf2') @@ res
    /\ at' = p

\* Lines 222-236: the body of the loops of varContext3Dmulti at
\* p = <<c, x, y, z>>.
BodyVar3D(p) ==
    /\ newf' = average_features_3d_is(sizes, p[2], p[3], p[4], p[1], integral, shape)
    /\ newf2' = average_features_3d_is(sizes, p[2], p[3], p[4], p[1], integral2, shape)
    /\ res' = WriteVar(<<p[2], p[3], p[4]>>, p[1], nnewfeatures, newf', newf2') @@ res
    /\ at' = p

\* The loop control of a driver: on to the next iteration, or return.
Advance(np) ==
    IF np = <<>> THEN pc' = "done" /\ pos' = pos
                 ELSE pc' = "loop" /\ pos' = np

\* Lines 142-154: one iteration of the loops of avContext2Dmulti.
StepAv2D ==
    /\ pc = "loop" /\ mode = "av2D"
    /\ BodyAv2D(pos)
    /\ Advance(NextPos2D(pos, shape))
    /\ UNCHANGED <<mode, shape, sizes, predictions, integral, integral2, todo>>

\* Lines 178-197: one iteration of the loops of varContext2Dmulti.
StepVar2D ==
    /\ pc = "loop" /\ mode = "var2D"
    /\ BodyVar2D(pos)
    /\ Advance(NextPos2D(pos, shape))
    /\ UNCHANGED <<mode, shape, sizes, predictions, integral, integral2, todo>>

\* Lines 218-240: one iteration of the loops of varContext3Dmulti.
StepVar3D ==
    /\ pc = "loop" /\ mode = "var3D"
    /\ BodyVar3D(pos)
    /\ Advance(NextPos3D(pos, shape))
    /\ UNCHANGED <<mode, shape, sizes, predictions, integral, integral2, todo>>

\* The loop control when the iterations are taken in any order: p is done.
Take(p) ==
    /\ todo' = todo \ {p}
    /\ pc' = IF todo \ {p} = {} THEN "done" ELSE "loop"
    /\ UNCHANGED <<mode, shape, sizes, predictions, integral, integral2, pos>>

\* The iterations of the loops of
\* avContext2Dmulti (lines 142-154), taken in any order.
AnyAv2D ==
    /\ pc = "loop" /\ mode = "av2D"
    /\ \E p \in todo : BodyAv2D(p) /\ Take(p)

\* The iterations of the loops of varContext2Dmulti (lines 178-197), taken
\* in any order.
AnyVar2D ==
    /\ pc = "loop" /\ mode = "var2D"
    /\ \E p \in todo : BodyVar2D(p) /\ Take(p)

\* The iterations of the loops of varContext3Dmulti (lines 218-240), taken
\* in any order.
AnyVar3D ==
    /\ pc = "loop" /\ mode = "var3D"
    /\ \E p \in todo : BodyVar3D(p) /\ Take(p)

Next ==
    \/ BuildAv2D
    \/ BuildVar2D
    \/ BuildVar3D
    \/ StepAv2D
    \/ StepVar2D
    \/ StepVar3D

Spec == Init /\ [][Next]_vars

SpecAny == InitAny /\ [][Next]_vars

NextPar ==
    \/ BuildAv2D
    \/ BuildVar2D
    \/ BuildVar3D
    \/ AnyAv2D
    \/ AnyVar2D
    \/ AnyVar3D

SpecPar == InitPar /\ [][NextPar]_vars

\* ------------------------------------------------------------ properties
\* An iteration of a driver's loops has been executed; `at` holds its loop
\* variables, newf (and newf2) the records of its calls.
Called == at # <<>>

nclasses == nclassesOf(shape)

\* The location of the last iteration, without the channel.
AtLoc == SubSeq(at, 2, Len(at))

\* The calls of the last iteration: 1 is the call on integral, 2 the call on
\* integral2 (the variance drivers only), and the field each one averages.
Runs == IF mode = "av2D" THEN {1} ELSE {1, 2}

Run(k) == IF k = 1 THEN newf ELSE newf2

FieldOf(k, p) == IF k = 1 THEN predictions[p] ELSE predictions[p] * predictions[p]

\* The box of radius r around location loc lies inside the array.
InBounds(loc, r) ==
    \A a \in 1 .. Len(loc) : loc[a] - r >= 0 /\ loc[a] + r <= shape[a] - 1

\* The box of radius r around location loc leaves the array.
BoxLeaves(loc, r) ==
    \E a \in 1 .. Len(loc) : loc[a] < r \/ loc[a] + r > shape[a] - 1

\* The elements of channel c in the box of radius r around loc.
BoxOf(loc, c, r) ==
    {p \in DOMAIN predictions :
        /\ p[Len(p)] = c
        /\ \A a \in 1 .. Len(loc) : loc[a] - r <= p[a] /\ p[a] <= loc[a] + r}

RECURSIVE SumOver(_, _)
\* The sum of field k over the set S of elements, element by element.
SumOver(k, S) ==
    IF S = {} THEN 0
    ELSE LET p == CHOOSE q \in S : TRUE
         IN  FieldOf(k, p) + SumOver(k, S \ {p})

\* The sum of field k of channel c over the box of radius r around loc.
BruteBox(k, loc, c, r) == SumOver(k, BoxOf(loc, c, r))

\* (2r+1)^D.
BoxCount(loc, r) ==
    IF Len(loc) = 2 THEN (2 * r + 1) * (2 * r + 1)
    ELSE (2 * r + 1) * (2 * r + 1) * (2 * r + 1)

\* C1: for consecutive in-border radii r_{i-1} < r_i (i >= 1) the value
\* returned for r_i, times its annulus count (2r_i+1)^D - (2r_{i-1}+1)^D, plus
\* the sum of the field over the whole box of radius r_{i-1}, equals the sum
\* of the field over the whole box of radius r_i.
C1_AnnulusDecomposition ==
    (Called /\ StrictlyIncreasing(sizes)) =>
        \A k \in Runs : \A i \in DOMAIN sizes :
            (i >= 1 /\ InBounds(AtLoc, sizes[i - 1]) /\ InBounds(AtLoc, sizes[i])) =>
                RAdd(RMulInt(Run(k).averages[i],
                             BoxCount(AtLoc, sizes[i]) - BoxCount(AtLoc, sizes[i - 1])),
                     RInt(BruteBox(k, AtLoc, at[1], sizes[i - 1])))
                = RInt(BruteBox(k, AtLoc, at[1], sizes[i]))

\* C2: in average_features, for every radius whose box lies inside the
\* array, the four-corner expression lr - ll - ur + ul equals the sum of the
\* field over the box, and the value returned for the first radius is that
\* sum divided by (2r+1)^2.
C2_BoxSum2D ==
    (Called /\ ~Is3D(mode)) =>
        \A k \in Runs : \A i \in DOMAIN sizes :
            InBounds(AtLoc, sizes[i]) =>
                /\ Run(k).box[i] = RInt(BruteBox(k, AtLoc, at[1], sizes[i]))
                /\ i = 0 => Run(k).averages[0]
                            = Rat(BruteBox(k, AtLoc, at[1], sizes[0]),
                                  (2 * sizes[0] + 1) * (2 * sizes[0] + 1))

\* A box of radius >= 1 that touches the low border in x and not in y, with
\* a non-zero sum.
C2_Witness ==
    /\ Called /\ mode = "var2D"
    /\ \E i \in DOMAIN sizes :
        /\ sizes[i] >= 1 /\ InBounds(AtLoc, sizes[i])
        /\ at[2] = sizes[i] /\ at[3] # sizes[i]
        /\ newf.box[i] # RInt(0)

\* C3: in average_features_3d_is, for every radius whose cube lies inside
\* the volume, the eight-corner expression equals the sum of the field over
\* the cube.
C3_BoxSum3D ==
    (Called /\ Is3D(mode)) =>
        \A k \in Runs : \A i \in DOMAIN sizes :
            InBounds(AtLoc, sizes[i]) =>
                Run(k).box[i] = RInt(BruteBox(k, AtLoc, at[1], sizes[i]))

\* A cube of radius >= 1 that touches the low face in x and neither in y nor
\* in z, with a non-zero sum.
C3_Witness ==
    /\ Called /\ Is3D(mode)
    /\ \E i \in DOMAIN sizes :
        /\ sizes[i] >= 1 /\ InBounds(AtLoc, sizes[i])
        /\ at[2] = sizes[i] /\ at[3] # sizes[i] /\ at[4] # sizes[i]
        /\ newf.box[i] # RInt(0)

\* The element of res at the last iteration's location and feature index f.
ResAt(f) == res[Append(AtLoc, f)]

\* C4: for every radius whose box leaves the array the routine returns
\* exactly 1/nclasses and reads no element of the accumulator, in 2D and in
\* 3D, whatever the earlier radii produced; the driver stores that value as
\* the mean feature.
C4_BorderPlaceholder ==
    Called =>
        \A i \in DOMAIN sizes :
            BoxLeaves(AtLoc, sizes[i]) =>
                /\ \A k \in Runs : /\ Run(k).averages[i] = <<1, nclasses>>
                                   /\ Run(k).reads[i] = {}
                /\ ResAt(IF mode = "av2D" THEN at[1] * nnewfeatures + i
                         ELSE at[1] * 2 * nnewfeatures + i) = <<1, nclasses>>

\* In 3D with two channels: a radius whose cube leaves the volume after a
\* radius whose cube does not.
C4_Witness ==
    /\ Called /\ Is3D(mode) /\ nclasses = 2
    /\ \E i \in DOMAIN sizes :
        /\ i >= 1 /\ BoxLeaves(AtLoc, sizes[i]) /\ ~BoxLeaves(AtLoc, sizes[i - 1])
        /\ sizes[i - 1] >= 1

\* C5: every variance feature written by varContext2Dmulti and
\* varContext3Dmulti is >= 0, for strictly increasing radius lists.
C5_VarianceNonNegative ==
    (Called /\ mode # "av2D" /\ StrictlyIncreasing(sizes)) =>
        \A i \in DOMAIN sizes :
            RGeqZero(ResAt(at[1] * 2 * nnewfeatures + nnewfeatures + i))

IsConstant(P) == \A p \in DOMAIN P : \A q \in DOMAIN P : P[p] = P[q]

\* C6: on a constant field F = k, at a location where no radius of the list
\* triggers the border rule, every mean feature equals k and every variance
\* feature equals 0.
C6_ConstantField ==
    (/\ Called /\ IsConstant(predictions) /\ StrictlyIncreasing(sizes)
     /\ \A i \in DOMAIN sizes : ~BoxLeaves(AtLoc, sizes[i])) =>
        \A i \in DOMAIN sizes :
            LET k == predictions[CHOOSE p \in DOMAIN predictions : TRUE]
            IN  IF mode = "av2D"
                THEN ResAt(at[1] * nnewfeatures + i) = RInt(k)
                ELSE /\ ResAt(at[1] * 2 * nnewfeatures + i) = RInt(k)
                     /\ ResAt(at[1] * 2 * nnewfeatures + nnewfeatures + i) = RInt(0)

\* varContext2Dmulti on a constant non-zero field with three nested radii,
\* none of them out of border.
C6_Witness ==
    /\ Called /\ mode = "var2D" /\ IsConstant(predictions)
    /\ predictions[<<0, 0, 0>>] = MaxVal
    /\ nnewfeatures = 3
    /\ \A i \in DOMAIN sizes : ~BoxLeaves(AtLoc, sizes[i])

\* The record of the averaging routine of the running driver at loop
\* variables p, on accumulator acc.
RoutineAt(p, acc) ==
    IF Is3D(mode) THEN average_features_3d_is(sizes, p[2], p[3], p[4], p[1], acc, shape)
    ELSE average_features(sizes, p[2], p[3], p[1], acc, shape)

\* The feature index a driver gives statistic s (0: mean, 1: variance) of
\* radius i of channel c.
FeatureIndex(c, i, s) ==
    IF mode = "av2D" THEN AvIndex(c, i, nnewfeatures)
    ELSE IF s = 0 THEN MeanIndex(c, i, nnewfeatures)
    ELSE VarIndex(c, i, nnewfeatures)

Stats == IF mode = "av2D" THEN {0} ELSE {0, 1}

Triples == (0 .. nclasses - 1) \X (0 .. nnewfeatures - 1) \X Stats

\* C7: when a driver has returned, feature index c*n + i (mean-only driver),
\* resp. c*2n + i and c*2n + n + i (mean and variance), holds the value the
\* routine produced for (location, c, i), resp. the squared-accumulator
\* result minus the mean squared; every feature index below C*n (resp. C*2n)
\* is written at every location, and distinct (channel, radius, statistic)
\* triples have distinct feature indices.
C7_OutputLayout ==
    pc = "done" =>
        LET n == nnewfeatures
            width == IF mode = "av2D" THEN nclasses * n ELSE nclasses * 2 * n
        IN  /\ DOMAIN res = {Append(SubSeq(p, 2, Len(p)), f) :
                                p \in AllPos(shape), f \in 0 .. width - 1}
            /\ \A p \in AllPos(shape) :
                LET loc == SubSeq(p, 2, Len(p))
                    c == p[1]
                    f == RoutineAt(p, integral)
                    f2 == RoutineAt(p, integral2)
                IN  \A i \in 0 .. n - 1 :
                        IF mode = "av2D"
                        THEN res[Append(loc, c * n + i)] = f.averages[i]
                        ELSE /\ res[Append(loc, c * 2 * n + i)] = f.averages[i]
                             /\ res[Append(loc, c * 2 * n + n + i)]
                                = RSub(f2.averages[i], RMul(f.averages[i], f.averages[i]))
            /\ \A t \in Triples : \A u \in Triples :
                t # u => FeatureIndex(t[1], t[2], t[3]) # FeatureIndex(u[1], u[2], u[3])

\* varContext3Dmulti has returned, with two channels and two radii.
C7_Witness ==
    pc = "done" /\ mode = "var3D" /\ nclasses = 2 /\ nnewfeatures = 2

\* What the iteration at loop variables p writes to res.
WritesAt(p) ==
    IF mode = "av2D"
    THEN WriteAv(SubSeq(p, 2, Len(p)), p[1], nnewfeatures, RoutineAt(p, integral))
    ELSE WriteVar(SubSeq(p, 2, Len(p)), p[1], nnewfeatures,
                  RoutineAt(p, integral), RoutineAt(p, integral2))

FirstPos == IF Is3D(mode) THEN <<0, 0, 0, 0>> ELSE <<0, 0, 0>>

NextPosOf(p) == IF Is3D(mode) THEN NextPos3D(p, shape) ELSE NextPos2D(p, shape)

RECURSIVE SequentialFrom(_, _)
\* The output array after the iterations from p on, in the order of the
\* loops, starting from output array out.
SequentialFrom(p, out) ==
    IF p = <<>> THEN out ELSE SequentialFrom(NextPosOf(p), WritesAt(p) @@ out)

\* C8: the iterations of a driver's loops write disjoint sets of output
\* elements, and taken in any order they leave the output array the loops
\* leave when run in sequence.
C8_OrderIndependent ==
    /\ Cardinality(DOMAIN res)
       = (Cardinality(AllPos(shape)) - Cardinality(todo))
         * (IF mode = "av2D" THEN nnewfeatures ELSE 2 * nnewfeatures)
    /\ pc = "done" => res = SequentialFrom(FirstPos, <<>>)

\* varContext3Dmulti with two channels has finished, and the iteration the
\* loops take first was taken last.
C8_Witness ==
    /\ pc = "done" /\ mode = "var3D" /\ nclasses = 2 /\ nnewfeatures = 2
    /\ Cardinality(todo) = 0 /\ Cardinality(DOMAIN res) >= 16
    /\ at = <<0, 0, 0, 0>>

\* C9: every read of the accumulator has each index within 0..dimension-1,
\* and averages[ir-1] is read only when ir >= 1.
C9_NoOutOfBounds ==
    Called =>
        \A k \in Runs : \A i \in DOMAIN sizes :
            /\ \A idx \in Run(k).reads[i] :
                \A a \in 1 .. Len(shape) : 0 <= idx[a] /\ idx[a] <= shape[a] - 1
            /\ \A j \in Run(k).avReads[i] : i >= 1 /\ j = i - 1 /\ j >= 0

\* In 3D, for a radius list that is not increasing: a cube of radius >= 1
\* touching the low face in x only, after an earlier radius whose entry is
\* read.
C9_Witness ==
    /\ Called /\ Is3D(mode) /\ ~StrictlyIncreasing(sizes)
    /\ \E i \in DOMAIN sizes :
        /\ i >= 1 /\ sizes[i] >= 1 /\ ~newf.border[i]
        /\ at[2] = sizes[i] /\ at[3] # sizes[i] /\ at[4] # sizes[i]
        /\ Cardinality(newf.reads[i]) = 4
        /\ newf.avReads[i] = {i - 1}

\* C10: for a strictly increasing radius list, once a radius is out of
\* border every later one is, so the entry averages[i-1] that the
\* subtraction at an in-border radius reads is never the placeholder.
C10_BorderMonotone ==
    (Called /\ StrictlyIncreasing(sizes)) =>
        \A k \in Runs : \A i \in DOMAIN sizes :
            /\ (i >= 1 /\ Run(k).border[i - 1]) => Run(k).border[i]
            /\ \A j \in Run(k).avReads[i] : ~Run(k).border[j]

\* Three increasing radii in 3D: the first in border, the second out of
\* border, and the third out of border after it.
C10_Witness ==
    /\ Called /\ Is3D(mode) /\ StrictlyIncreasing(sizes) /\ nnewfeatures = 3
    /\ ~newf.border[0] /\ newf.border[1] /\ newf.border[2]
    /\ newf.avReads[2] = {}

====
